---------------------------- MODULE Spec2Model ----------------------------
(***************************************************************************)
(* Model of the GPTSwarm demo core: the complexity classifier and team     *)
(* planner of demos/research_assistant_demo.py, the two graph builders of  *)
(* demos/comprehensive_demo.py and demos/interactive_visualizer.py, and    *)
(* the optimisation loop of demos/comprehensive_demo.py.                   *)
(*                                                                         *)
(* Each component has its own specification over the shared variables:     *)
(*   SpecTeam   query -> analyze_complexity -> form_team                   *)
(*   SpecGraph  config -> create_demo_graph / _generate_graph_data         *)
(*   SpecSim    scenario -> simulate_optimization, one loop pass per step  *)
(*   SpecRoundTrip  SpecTeam, then the team handed to the graph builders   *)
(*   SpecAssistant  process_research_query pipelines interleaved at their  *)
(*                  await points, and get_performance_analytics            *)
(* Spec is their disjunction (Init picks which component runs).            *)
(***************************************************************************)
EXTENDS Integers, Sequences, FiniteSets, TLC

VARIABLES
    pc,                  \* position of the running component
    query,               \* ResearchTask.query
    analysis,            \* result of analyze_complexity
    team,                \* AgentTeam fields (agents, formation_strategy, collaboration_pattern)
    team_config,         \* result of form_team
    config,              \* graph configuration {"agents", "connections"}
    demo_graph,          \* result of create_demo_graph
    graph_data,          \* result of _generate_graph_data
    scenario,            \* optimisation scenario {"initial_performance", "target_performance"}
    current,             \* simulate_optimization: local current
    performance_history, \* simulate_optimization: local performance_history
    iterations,          \* simulate_optimization: loop passes made so far
    tasks,               \* the process_research_query calls of one assistant
    completed_tasks,     \* AdvancedResearchAssistant.completed_tasks
    history,             \* AdvancedResearchAssistant.performance_history
    analytics            \* the last result of get_performance_analytics

vars == <<pc, query, analysis, team, team_config, config, demo_graph,
          graph_data, scenario, current, performance_history, iterations,
          tasks, completed_tasks, history, analytics>>

teamVars  == <<query, analysis, team, team_config>>
graphVars == <<config, demo_graph, graph_data>>
simVars   == <<scenario, current, performance_history, iterations>>
asstVars  == <<tasks, completed_tasks, history, analytics>>

(* a variable that holds no value yet *)
NoValue == [none |-> TRUE]

-----------------------------------------------------------------------------
(* Bounds *)

MaxWords == 6     \* words of a query
MaxAgents == 6    \* agents of a graph configuration
MaxGrid == 20     \* performance values 0, 0.05, ..., MaxGrid * 0.05
MaxTasks == 2     \* process_research_query calls on one assistant

-----------------------------------------------------------------------------
(* Helpers *)

Range(s) == {s[i] : i \in DOMAIN s}

MinOf(a, b) == IF a <= b THEN a ELSE b

MaxOf(a, b) == IF a >= b THEN a ELSE b

MinElem(S) == CHOOSE x \in S : \A y \in S : x <= y

(* Python "needle in haystack" on str: substring test. *)
Contains(needle, haystack) ==
    \E i \in 1..(Len(haystack) - Len(needle) + 1) :
        SubSeq(haystack, i, i + Len(needle) - 1) = needle

UpperCase == "ABCDEFGHIJKLMNOPQRSTUVWXYZ"
LowerCase == "abcdefghijklmnopqrstuvwxyz"

LowerChar(c) ==
    IF \E i \in 1..Len(UpperCase) : SubSeq(UpperCase, i, i) = c
    THEN LET i == CHOOSE k \in 1..Len(UpperCase) : SubSeq(UpperCase, k, k) = c
         IN  SubSeq(LowerCase, i, i)
    ELSE c

(* str.lower() *)
RECURSIVE Lower(_)
Lower(s) ==
    IF Len(s) = 0 THEN ""
    ELSE LowerChar(SubSeq(s, 1, 1)) \o Lower(SubSeq(s, 2, Len(s)))

(* any(word in text for word in words) *)
AnyIn(words, text) == \E i \in DOMAIN words : Contains(words[i], text)

-----------------------------------------------------------------------------
(* ResearchTask (research_assistant_demo.py) *)

Levels == <<"high", "medium", "low">>

complexity_indicators ==
    [high   |-> <<"compare", "analyze", "evaluate", "synthesize", "integrate", "comprehensive">>,
     medium |-> <<"explain", "describe", "summarize", "overview", "review">>,
     low    |-> <<"what", "when", "where", "who", "define", "list">>]

(* score = sum(1 for indicator in indicators if indicator in query_lower) *)
complexity_scores(query_lower) ==
    [level \in Range(Levels) |->
        Cardinality({i \in DOMAIN complexity_indicators[level] :
                        Contains(complexity_indicators[level][i], query_lower)})]

(* variant: the tier with the largest match count wins *)
DetermineComplexity_ByCount(scores) ==
    IF scores["high"] > 0 /\ scores["high"] >= scores["medium"] /\ scores["high"] >= scores["low"]
    THEN "high"
    ELSE IF scores["medium"] > 0 /\ scores["medium"] >= scores["low"] THEN "medium"
    ELSE "low"

DetermineComplexity(scores) ==
    IF scores["high"] > 0 THEN "high"
    ELSE IF scores["medium"] > 0 THEN "medium"
    ELSE "low"

(* variant: "compare" is no keyword of the skill analysis *)
skill_keywords_NoCompare ==
    << [skill |-> "research",   words |-> <<"search", "find", "research">>],
       [skill |-> "analysis",   words |-> <<"analyze", "analysis">>],
       [skill |-> "coding",     words |-> <<"code", "program", "algorithm">>],
       [skill |-> "synthesis",  words |-> <<"synthesize", "combine", "integrate">>],
       [skill |-> "creativity", words |-> <<"creative", "design", "innovative">>] >>

skill_keywords ==
    << [skill |-> "research",   words |-> <<"search", "find", "research">>],
       [skill |-> "analysis",   words |-> <<"analyze", "analysis", "compare">>],
       [skill |-> "coding",     words |-> <<"code", "program", "algorithm">>],
       [skill |-> "synthesis",  words |-> <<"synthesize", "combine", "integrate">>],
       [skill |-> "creativity", words |-> <<"creative", "design", "innovative">>] >>

(* the five "if any(...): skills.append(...)" statements, in order *)
RECURSIVE DetermineSkills(_, _)
DetermineSkills(query_lower, k) ==
    IF k = 0 THEN << >>
    ELSE LET before == DetermineSkills(query_lower, k - 1)
         IN  IF AnyIn(skill_keywords[k].words, query_lower)
             THEN Append(before, skill_keywords[k].skill)
             ELSE before

_estimate_time(complexity) ==
    CASE complexity = "low" -> 60
      [] complexity = "medium" -> 180
      [] complexity = "high" -> 600
      [] OTHER -> 180

(* variant: the low tier starts from three agents *)
base_count_LowThree(complexity) ==
    CASE complexity = "low" -> 3
      [] complexity = "medium" -> 3
      [] complexity = "high" -> 4
      [] OTHER -> 3

base_count(complexity) ==
    CASE complexity = "low" -> 2
      [] complexity = "medium" -> 3
      [] complexity = "high" -> 4
      [] OTHER -> 3

_estimate_agent_count(complexity, skills) ==
    LET skill_bonus == Len(skills) \div 2
    IN  MinOf(base_count(complexity) + skill_bonus, 6)

analyze_complexity(q) ==
    LET query_lower == Lower(q)
        complexity  == DetermineComplexity(complexity_scores(query_lower))
        skills      == DetermineSkills(query_lower, Len(skill_keywords))
    IN  [complexity     |-> complexity,
         skills         |-> skills,
         estimated_time |-> _estimate_time(complexity),
         agent_count    |-> _estimate_agent_count(complexity, skills)]

-----------------------------------------------------------------------------
(* AgentTeam (research_assistant_demo.py) *)

AgentTypes == <<"IO", "TOT", "WEB", "CODE", "CREATIVE", "CRITIC">>

agent_capabilities ==
    [IO       |-> <<"research", "general_reasoning", "synthesis">>,
     TOT      |-> <<"analysis", "deep_reasoning", "planning">>,
     WEB      |-> <<"web_search", "information_gathering", "fact_checking">>,
     CODE     |-> <<"coding", "technical_analysis", "algorithm_design">>,
     CREATIVE |-> <<"creativity", "brainstorming", "design">>,
     CRITIC   |-> <<"evaluation", "quality_check", "verification">>]

(* inner loop of "for skill in skills": the first agent type, in dict    *)
(* order, that has the skill and is not selected yet is appended         *)
SelectForSkill(selected_agents, skill) ==
    LET found == {i \in DOMAIN AgentTypes :
                    /\ skill \in Range(agent_capabilities[AgentTypes[i]])
                    /\ AgentTypes[i] \notin Range(selected_agents)}
    IN  IF found = {} THEN selected_agents
        ELSE Append(selected_agents, AgentTypes[MinElem(found)])

RECURSIVE SelectForSkills(_, _, _)
SelectForSkills(selected_agents, skills, k) ==
    IF k > Len(skills) THEN selected_agents
    ELSE SelectForSkills(SelectForSkill(selected_agents, skills[k]), skills, k + 1)

(* variant: no TOT agent is added for complex tasks *)
AddTOT_Never(selected_agents, complexity) == selected_agents

AddTOT(selected_agents, complexity) ==
    IF complexity = "high" /\ "TOT" \notin Range(selected_agents)
    THEN Append(selected_agents, "TOT")
    ELSE selected_agents

(* variant: no coordinator is added *)
PadIO_Missing(selected_agents, agent_count) == selected_agents

(* while len(selected_agents) < agent_count: selected_agents.append("IO") *)
RECURSIVE PadIO(_, _)
PadIO(selected_agents, agent_count) ==
    IF Len(selected_agents) < agent_count
    THEN PadIO(Append(selected_agents, "IO"), agent_count)
    ELSE selected_agents

(* variant: the trim is left out *)
Trim_Missing(selected_agents, agent_count) == selected_agents

(* selected_agents[:agent_count], agent_count >= 0 *)
Trim(selected_agents, agent_count) ==
    SubSeq(selected_agents, 1, MinOf(agent_count, Len(selected_agents)))

(* variant: the selection does not start with the coordinator *)
SkillMatched_NoCoordinator(complexity, skills) ==
    AddTOT(SelectForSkills(<< >>, skills, 1), complexity)

(* the selection before padding and trimming (lines 124-138) *)
SkillMatched(complexity, skills) ==
    AddTOT(SelectForSkills(<<"IO">>, skills, 1), complexity)

SelectAgents(complexity, skills, agent_count) ==
    Trim(PadIO(SkillMatched(complexity, skills), agent_count), agent_count)

(* variant: three skills are enough for the hierarchical strategy *)
_determine_formation_strategy_AtLeast(complexity, skills) ==
    IF complexity = "high" /\ Len(skills) >= 3 THEN "hierarchical_specialization"
    ELSE IF Len(skills) > 2 THEN "skill_based_clustering"
    ELSE IF complexity = "high" THEN "deep_collaboration"
    ELSE "simple_parallel"

_determine_formation_strategy(complexity, skills) ==
    IF complexity = "high" /\ Len(skills) > 3 THEN "hierarchical_specialization"
    ELSE IF Len(skills) > 2 THEN "skill_based_clustering"
    ELSE IF complexity = "high" THEN "deep_collaboration"
    ELSE "simple_parallel"

_determine_collaboration_pattern(agents) ==
    IF Len(agents) <= 2 THEN "sequential"
    ELSE IF "TOT" \in Range(agents) THEN "hub_and_spoke"
    ELSE IF Len(agents) >= 4 THEN "fully_connected"
    ELSE "pipeline"

(* variant: the coordinator is not scored for synthesis *)
agent_skill_map_NoSynthesis ==
    [IO       |-> <<"research">>,
     TOT      |-> <<"analysis", "deep_reasoning">>,
     WEB      |-> <<"web_search", "information_gathering">>,
     CODE     |-> <<"coding", "technical_analysis">>,
     CREATIVE |-> <<"creativity", "design">>,
     CRITIC   |-> <<"evaluation", "verification">>]

agent_skill_map ==
    [IO       |-> <<"research", "synthesis">>,
     TOT      |-> <<"analysis", "deep_reasoning">>,
     WEB      |-> <<"web_search", "information_gathering">>,
     CODE     |-> <<"coding", "technical_analysis">>,
     CREATIVE |-> <<"creativity", "design">>,
     CRITIC   |-> <<"evaluation", "verification">>]

(* Performance estimates are exact multiples of 1/PerfScale:             *)
(* 0.6, 0.3 * coverage / n (n in 1..5) and 0.1 * min(size / 4, 1).       *)
PerfScale == 1200

skill_coverage(agents, skills) ==
    Cardinality({k \in DOMAIN skills :
        \E a \in DOMAIN agents : skills[k] \in Range(agent_skill_map[agents[a]])})

_estimate_performance(agents, skills) ==
    LET base_performance == (6 * PerfScale) \div 10
        skill_bonus == (skill_coverage(agents, skills) * 3 * PerfScale)
                          \div (10 * MaxOf(Len(skills), 1))
        team_size_bonus == MinOf((Len(agents) * PerfScale) \div 4, PerfScale) \div 10
    IN  MinOf(base_performance + skill_bonus + team_size_bonus, PerfScale)

(* variant: the pattern is taken from the selection before padding and trimming *)
form_team_PatternOfSelection(a) ==
    LET selected_agents == SelectAgents(a.complexity, a.skills, a.agent_count)
    IN  [agents                |-> selected_agents,
         formation_strategy    |-> _determine_formation_strategy(a.complexity, a.skills),
         collaboration_pattern |->
             _determine_collaboration_pattern(SkillMatched(a.complexity, a.skills)),
         estimated_performance |-> _estimate_performance(selected_agents, a.skills)]

form_team(a) ==
    LET selected_agents == SelectAgents(a.complexity, a.skills, a.agent_count)
    IN  [agents                |-> selected_agents,
         formation_strategy    |-> _determine_formation_strategy(a.complexity, a.skills),
         collaboration_pattern |-> _determine_collaboration_pattern(selected_agents),
         estimated_performance |-> _estimate_performance(selected_agents, a.skills)]

-----------------------------------------------------------------------------
(* Real numbers                                                            *)
(*                                                                         *)
(* A connectivity is a quotient of two small integers; it is kept as the   *)
(* reduced fraction, so that two quotients are equal exactly when the      *)
(* floats Python computes for them are equal.                              *)

RECURSIVE GCD(_, _)
GCD(a, b) == IF b = 0 THEN a ELSE GCD(b, a % b)

Ratio(a, b) == [num |-> a \div GCD(a, b), den |-> b \div GCD(a, b)]

Zero == [num |-> 0, den |-> 1]
Half == [num |-> 1, den |-> 2]
One  == [num |-> 1, den |-> 1]

ZeroDivisionError == [error |-> "ZeroDivisionError"]

(* Python "a / b" *)
Divide(a, b) == IF b = 0 THEN ZeroDivisionError ELSE Ratio(a, b)

-----------------------------------------------------------------------------
(* ComprehensiveDemo.create_demo_graph (comprehensive_demo.py) *)

(* num_agents * (num_agents - 1) / 2 *)
MaxEdges(num_agents) == (num_agents * (num_agents - 1)) \div 2

(* variant: the hub counts one edge per node *)
DemoEdges_HubPerNode(connections, num_agents) ==
    CASE connections = "sequential" -> num_agents - 1
      [] connections = "full" -> (num_agents * (num_agents - 1)) \div 2
      [] connections = "hub" -> num_agents
      [] OTHER -> num_agents

DemoEdges(connections, num_agents) ==
    CASE connections = "sequential" -> num_agents - 1
      [] connections = "full" -> (num_agents * (num_agents - 1)) \div 2
      [] connections = "hub" -> num_agents - 1
      [] OTHER -> num_agents

DemoConnectivity(connections, num_agents) ==
    CASE connections = "sequential" -> Divide(num_agents - 1, MaxEdges(num_agents))
      [] connections = "full" -> One
      [] connections = "hub" -> Divide(num_agents - 1, MaxEdges(num_agents))
      [] OTHER -> Half

create_demo_graph(cfg) ==
    LET agents == cfg.agents
        num_agents == Len(agents)
        edges == DemoEdges(cfg.connections, num_agents)
        connectivity == DemoConnectivity(cfg.connections, num_agents)
    IN  IF connectivity = ZeroDivisionError THEN ZeroDivisionError
        ELSE [nodes        |-> num_agents,
              edges        |-> edges,
              connectivity |-> connectivity,
              agent_types  |-> agents]

-----------------------------------------------------------------------------
(* GraphVisualizer._generate_graph_data (interactive_visualizer.py) *)

_get_agent_color(agent_type) ==
    CASE agent_type = "IO" -> "#FF6B6B"
      [] agent_type = "TOT" -> "#4ECDC4"
      [] agent_type = "COT" -> "#45B7D1"
      [] agent_type = "WEB" -> "#96CEB4"
      [] agent_type = "TOOL" -> "#FFEAA7"
      [] OTHER -> "#DDA0DD"

(* node ids are 0-based; nodes[i + 1] is the node with id i *)
MakeNodes(agents) ==
    [k \in 1..Len(agents) |->
        [id    |-> k - 1,
         label |-> agents[k] \o "_" \o ToString(k - 1),
         type  |-> agents[k],
         color |-> _get_agent_color(agents[k]),
         size  |-> IF agents[k] = "TOT" THEN 20 ELSE 15]]

(* variant: edge_id is incremented before the edge is appended *)
MakeEdge_IdFromOne(edges, from, to, weight, color) ==
    Append(edges, [id |-> Len(edges) + 1, from |-> from, to |-> to,
                   weight |-> weight, color |-> color])

(* weights are in tenths: 8 is 0.8 *)
MakeEdge(edges, from, to, weight, color) ==
    Append(edges, [id |-> Len(edges), from |-> from, to |-> to,
                   weight |-> weight, color |-> color])

(* for i in range(num_agents - 1) *)
RECURSIVE SequentialEdges(_, _, _)
SequentialEdges(edges, i, num_agents) ==
    IF i >= num_agents - 1 THEN edges
    ELSE SequentialEdges(MakeEdge(edges, i, i + 1, 8, "#2E8B57"), i + 1, num_agents)

(* for j in range(i + 1, num_agents) *)
RECURSIVE FullEdgesRow(_, _, _, _)
FullEdgesRow(edges, i, j, num_agents) ==
    IF j >= num_agents THEN edges
    ELSE FullEdgesRow(MakeEdge(edges, i, j, 6, "#4169E1"), i, j + 1, num_agents)

(* variant: the inner loop starts at i instead of i + 1 *)
RECURSIVE FullEdges_FromSelf(_, _, _)
FullEdges_FromSelf(edges, i, num_agents) ==
    IF i >= num_agents THEN edges
    ELSE FullEdges_FromSelf(FullEdgesRow(edges, i, i, num_agents), i + 1, num_agents)

(* for i in range(num_agents) *)
RECURSIVE FullEdges(_, _, _)
FullEdges(edges, i, num_agents) ==
    IF i >= num_agents THEN edges
    ELSE FullEdges(FullEdgesRow(edges, i, i + 1, num_agents), i + 1, num_agents)

(* variant: for i in range(1, num_agents - 1) *)
RECURSIVE HubEdges_LastLeftOut(_, _, _)
HubEdges_LastLeftOut(edges, i, num_agents) ==
    IF i >= num_agents - 1 THEN edges
    ELSE HubEdges_LastLeftOut(MakeEdge(edges, 0, i, 7, "#DC143C"), i + 1, num_agents)

(* hub_node = 0; for i in range(1, num_agents) *)
RECURSIVE HubEdges(_, _, _)
HubEdges(edges, i, num_agents) ==
    IF i >= num_agents THEN edges
    ELSE HubEdges(MakeEdge(edges, 0, i, 7, "#DC143C"), i + 1, num_agents)

MakeEdges(connections, num_agents) ==
    CASE connections = "sequential" -> SequentialEdges(<< >>, 0, num_agents)
      [] connections = "full" -> FullEdges(<< >>, 0, num_agents)
      [] connections = "hub" -> HubEdges(<< >>, 1, num_agents)
      [] OTHER -> << >>

VisualizerConnectivity(num_edges, num_agents) ==
    IF num_agents > 1 THEN Divide(num_edges, MaxEdges(num_agents)) ELSE Zero

_generate_graph_data(cfg) ==
    LET agents == cfg.agents
        num_agents == Len(agents)
        edges == MakeEdges(cfg.connections, num_agents)
    IN  [nodes |-> MakeNodes(agents),
         edges |-> edges,
         stats |-> [num_nodes    |-> num_agents,
                    num_edges    |-> Len(edges),
                    connectivity |-> VisualizerConnectivity(Len(edges), num_agents)]]

-----------------------------------------------------------------------------
(* ComprehensiveDemo.simulate_optimization (comprehensive_demo.py)         *)
(*                                                                         *)
(* Performance values are floats in the source.  Here they are fixed-point *)
(* numbers, an integer count of 1/Scale, and a product is rounded down to  *)
(* the next multiple of 1/Scale where a float is rounded to the nearest    *)
(* double.                                                                 *)

Scale == 10000000

GridUnit == Scale \div 20      \* 0.05

(* improvement = (target - current) * 0.15 + 0.01 *)
Improvement(target, cur) == ((target - cur) * 15) \div 100 + Scale \div 100

(* variant: the clamp to target is left out *)
Improve_NoClamp(target, cur) == cur + Improvement(target, cur)

(* min(current + improvement, target) *)
Improve(target, cur) == MinOf(cur + Improvement(target, cur), target)

(* variant: stop at 90% of the target *)
CloseEnough_Ninety(target, cur) == 100 * cur >= 90 * target

(* current >= target * 0.95 *)
CloseEnough(target, cur) == 100 * cur >= 95 * target

(* range(10) *)
MaxIterations == 10

(* the scenarios of demo_swarm_optimization: 0.65 -> 0.85 and 0.70 -> 0.90 *)
optimization_scenarios ==
    {[initial_performance |-> 13 * GridUnit, target_performance |-> 17 * GridUnit],
     [initial_performance |-> 14 * GridUnit, target_performance |-> 18 * GridUnit]}

-----------------------------------------------------------------------------
(* AdvancedResearchAssistant (research_assistant_demo.py)                  *)
(*                                                                         *)
(* Performances are integer counts of 1/PerfScale.  The random phase       *)
(* times, source counts and quality scores of _execute_research are read   *)
(* by no decision and are left out of the execution result.                *)

Phases == <<"Information Gathering", "Analysis & Processing",
            "Synthesis & Integration", "Quality Review">>

(* execution_variance = random.uniform(-0.1, 0.1): the values drawn *)
Variances ==
    {-(PerfScale \div 10), -(PerfScale \div 20), 0, PerfScale \div 20, PerfScale \div 10}

(* max(0.0, min(1.0, base_performance + execution_variance)) *)
actual_performance(base_performance, execution_variance) ==
    MaxOf(0, MinOf(PerfScale, base_performance + execution_variance))

(* variant: a performance of 0.7 counts as a success *)
IsSuccess_AtLeast(performance) == 10 * performance >= 7 * PerfScale

(* execution_result['performance'] > 0.7 *)
IsSuccess(performance) == 10 * performance > 7 * PerfScale

(* the result dict of process_research_query; "task" is the identity of   *)
(* the ResearchTask object, one per call                                  *)
MakeResult(p, t, performance) ==
    [task             |-> p,
     query            |-> t.query,
     analysis         |-> t.analysis,
     team_config      |-> t.team_config,
     execution_result |-> [performance |-> performance, phases_completed |-> Len(Phases)],
     success          |-> IsSuccess(performance)]

RECURSIVE SumSeq(_)
SumSeq(q) == IF Len(q) = 0 THEN 0 ELSE q[1] + SumSeq(Tail(q))

(* sum(performances) / len(performances) *)
Average(performances) == Divide(SumSeq(performances), Len(performances) * PerfScale)

(* complexity_stats[complexity]: the performances of one tier, in order *)
RECURSIVE TierPerformances(_, _)
TierPerformances(ct, complexity) ==
    IF Len(ct) = 0 THEN << >>
    ELSE LET rest == TierPerformances(Tail(ct), complexity)
         IN  IF ct[1].analysis.complexity = complexity
             THEN <<ct[1].execution_result.performance>> \o rest
             ELSE rest

(* variant: the average is taken of an empty list as well *)
TierAverage_NoGuard(performances) == Average(performances)

TierAverage(performances) ==
    IF Len(performances) > 0 THEN Average(performances) ELSE Zero

complexity_averages(ct) ==
    [complexity \in {"low", "medium", "high"} |->
        TierAverage(TierPerformances(ct, complexity))]

(* the keys of team_patterns, in insertion order *)
RECURSIVE PatternKeys(_, _)
PatternKeys(ct, keys) ==
    IF Len(ct) = 0 THEN keys
    ELSE LET pattern == ct[1].team_config.collaboration_pattern
         IN  PatternKeys(Tail(ct),
                 IF pattern \in Range(keys) THEN keys ELSE Append(keys, pattern))

RECURSIVE PatternPerformances(_, _)
PatternPerformances(ct, pattern) ==
    IF Len(ct) = 0 THEN << >>
    ELSE LET rest == PatternPerformances(Tail(ct), pattern)
         IN  IF ct[1].team_config.collaboration_pattern = pattern
             THEN <<ct[1].execution_result.performance>> \o rest
             ELSE rest

(* pattern_averages.items(), in insertion order *)
pattern_averages(ct) ==
    LET keys == PatternKeys(ct, << >>)
    IN  [k \in DOMAIN keys |->
            [pattern |-> keys[k], average |-> Average(PatternPerformances(ct, keys[k]))]]

Less(a, b) == a.num * b.den < b.num * a.den

(* variant: a later item with an equal average replaces the best one *)
RECURSIVE MaxItem_LastWins(_, _, _)
MaxItem_LastWins(items, k, best) ==
    IF k > Len(items) THEN best
    ELSE MaxItem_LastWins(items, k + 1,
             IF ~Less(items[k].average, best.average) THEN items[k] ELSE best)

(* max(items, key=lambda x: x[1]): a later item replaces the best one    *)
(* only when its average is strictly greater                             *)
RECURSIVE MaxItem(_, _, _)
MaxItem(items, k, best) ==
    IF k > Len(items) THEN best
    ELSE MaxItem(items, k + 1,
             IF Less(best.average, items[k].average) THEN items[k] ELSE best)

best_performing_pattern(items) ==
    IF Len(items) > 0 THEN MaxItem(items, 2, items[1]).pattern ELSE "None"

NoTasksMessage == [message |-> "No tasks completed yet"]

Statistics(ct, hist) ==
    LET total_tasks == Len(ct)
        successful_tasks == Cardinality({i \in DOMAIN ct : ct[i].success})
        success_rate == Divide(successful_tasks, total_tasks)
        avg_performance == Average(hist)
        averages == complexity_averages(ct)
        items == pattern_averages(ct)
    IN  IF \/ success_rate = ZeroDivisionError
           \/ avg_performance = ZeroDivisionError
           \/ \E c \in DOMAIN averages : averages[c] = ZeroDivisionError
        THEN ZeroDivisionError
        ELSE [total_tasks              |-> total_tasks,
              success_rate             |-> success_rate,
              average_performance      |-> avg_performance,
              complexity_performance   |-> averages,
              team_pattern_performance |-> items,
              best_performing_pattern  |-> best_performing_pattern(items)]

(* variant: the test for an empty completed_tasks is left out *)
get_performance_analytics_NoGuard(ct, hist) == Statistics(ct, hist)

get_performance_analytics(ct, hist) ==
    IF Len(ct) = 0 THEN NoTasksMessage ELSE Statistics(ct, hist)

-----------------------------------------------------------------------------
(* Inputs *)

(* Words a query is put together from.  A keyword test is a substring     *)
(* test and no keyword contains a space, so the order of the words of a   *)
(* query makes no difference; a query takes its words in this order.      *)
Vocabulary ==
    << "Compare",     \* high, analysis
       "evaluate",    \* high
       "synthesize",  \* high, synthesis
       "explain",     \* medium
       "Review",      \* medium
       "What",        \* low
       "list",        \* low
       "research",    \* research ("search" and "research")
       "analysis",    \* analysis
       "code",        \* coding
       "combine",     \* synthesis
       "design",      \* creativity
       "energy" >>    \* no keyword

RECURSIVE JoinWords(_, _)
JoinWords(S, k) ==
    IF k > Len(Vocabulary) THEN ""
    ELSE LET rest == JoinWords(S, k + 1)
         IN  IF k \notin S THEN rest
             ELSE IF rest = "" THEN Vocabulary[k]
             ELSE Vocabulary[k] \o " " \o rest

(* the queries of run_research_demo *)
demo_queries ==
    {"What is machine learning?",
     "Compare the effectiveness of renewable energy sources in reducing carbon emissions",
     "Analyze the impact of AI on healthcare delivery, including case studies and future implications",
     "Design an algorithm for optimizing urban traffic flow using real-time data",
     "Synthesize research on quantum computing applications in cryptography and propose novel approaches"}

Queries ==
    {JoinWords(S, 1) : S \in {T \in SUBSET (1..Len(Vocabulary)) : Cardinality(T) <= MaxWords}}
        \cup demo_queries

GraphAgentTypes == {"IO", "TOT"}

RECURSIVE SeqsUpTo(_, _)
SeqsUpTo(S, n) ==
    IF n = 0 THEN {<< >>}
    ELSE LET shorter == SeqsUpTo(S, n - 1)
         IN  shorter \cup {Append(q, x) : q \in {r \in shorter : Len(r) = n - 1}, x \in S}

(* the labels the builders know, and the labels form_team produces *)
ConnectionLabels ==
    {"sequential", "full", "hub", "fully_connected", "hub_and_spoke", "pipeline"}

GraphConfigs ==
    [agents : SeqsUpTo(GraphAgentTypes, MaxAgents), connections : ConnectionLabels]

GridValues == {k * GridUnit : k \in 0..MaxGrid}

Scenarios == [initial_performance : GridValues, target_performance : GridValues]

(* the calls of process_research_query on one assistant *)
Pipelines == 1..MaxTasks

(* two of the demo_queries of run_research_demo, and two queries that    *)
(* give a medium tier and the patterns fully_connected and pipeline      *)
AssistantQueries ==
    {"What is machine learning?",
     "Compare the effectiveness of renewable energy sources in reducing carbon emissions",
     "Design an algorithm for optimizing urban traffic flow using real-time data",
     "explain code design"}

-----------------------------------------------------------------------------
(* Initial states *)

NewTeam == [agents |-> << >>, formation_strategy |-> "", collaboration_pattern |-> ""]

IdleTeam ==
    /\ query = ""
    /\ analysis = NoValue
    /\ team = NoValue
    /\ team_config = NoValue

IdleGraph ==
    /\ config = NoValue
    /\ demo_graph = NoValue
    /\ graph_data = NoValue

IdleSim ==
    /\ scenario = NoValue
    /\ current = 0
    /\ performance_history = << >>
    /\ iterations = 0

IdleTask ==
    [pc |-> "idle", query |-> "", analysis |-> NoValue, team_config |-> NoValue, phase |-> 0]

(* AdvancedResearchAssistant() *)
NewAssistant ==
    /\ tasks = [p \in Pipelines |-> IdleTask]
    /\ completed_tasks = << >>
    /\ history = << >>
    /\ analytics = NoValue

(* ResearchTask(query, domain) *)
InitTeam ==
    /\ pc = "task"
    /\ query \in Queries
    /\ analysis = NoValue
    /\ team = NoValue
    /\ team_config = NoValue
    /\ IdleGraph
    /\ IdleSim
    /\ NewAssistant

InitGraph ==
    /\ pc = "graph"
    /\ config \in GraphConfigs
    /\ demo_graph = NoValue
    /\ graph_data = NoValue
    /\ IdleTeam
    /\ IdleSim
    /\ NewAssistant

InitSim ==
    /\ pc = "sim_called"
    /\ scenario \in Scenarios
    /\ current = 0
    /\ performance_history = << >>
    /\ iterations = 0
    /\ IdleTeam
    /\ IdleGraph
    /\ NewAssistant

InitAssistant ==
    /\ pc = "assistant"
    /\ NewAssistant
    /\ IdleTeam
    /\ IdleGraph
    /\ IdleSim

Init == InitTeam \/ InitGraph \/ InitSim \/ InitAssistant

-----------------------------------------------------------------------------
(* Actions *)

(* analysis = task.analyze_complexity(); team = AgentTeam(task) *)
AnalyzeComplexity ==
    /\ pc = "task"
    /\ analysis' = analyze_complexity(query)
    /\ team' = NewTeam
    /\ pc' = "analyzed"
    /\ UNCHANGED <<query, team_config>>
    /\ UNCHANGED <<graphVars, simVars>>
    /\ UNCHANGED asstVars

(* team_config = team.form_team(analysis) *)
FormTeam ==
    /\ pc = "analyzed"
    /\ team_config' = form_team(analysis)
    /\ team' = [agents                |-> team_config'.agents,
                formation_strategy    |-> team_config'.formation_strategy,
                collaboration_pattern |-> team_config'.collaboration_pattern]
    /\ pc' = "formed"
    /\ UNCHANGED <<query, analysis>>
    /\ UNCHANGED <<graphVars, simVars>>
    /\ UNCHANGED asstVars

CreateDemoGraph ==
    /\ pc = "graph"
    /\ demo_graph = NoValue
    /\ demo_graph' = create_demo_graph(config)
    /\ UNCHANGED <<pc, config, graph_data>>
    /\ UNCHANGED <<teamVars, simVars>>
    /\ UNCHANGED asstVars

GenerateGraphData ==
    /\ pc = "graph"
    /\ graph_data = NoValue
    /\ graph_data' = _generate_graph_data(config)
    /\ UNCHANGED <<pc, config, demo_graph>>
    /\ UNCHANGED <<teamVars, simVars>>
    /\ UNCHANGED asstVars

(* performance_history = [initial]; current = initial *)
SimStart ==
    /\ pc = "sim_called"
    /\ performance_history' = <<scenario.initial_performance>>
    /\ current' = scenario.initial_performance
    /\ iterations' = 0
    /\ pc' = "sim_loop"
    /\ UNCHANGED scenario
    /\ UNCHANGED <<teamVars, graphVars>>
    /\ UNCHANGED asstVars

(* one pass of the loop body up to "await asyncio.sleep(0.01)" *)
SimIterate ==
    /\ pc = "sim_loop"
    /\ current' = Improve(scenario.target_performance, current)
    /\ performance_history' = Append(performance_history, current')
    /\ iterations' = iterations + 1
    /\ pc' = "sim_sleep"
    /\ UNCHANGED scenario
    /\ UNCHANGED <<teamVars, graphVars>>
    /\ UNCHANGED asstVars

(* variant: the loop has no break *)
SimResume_NoBreak ==
    /\ pc = "sim_sleep"
    /\ pc' = IF iterations >= MaxIterations THEN "sim_done" ELSE "sim_loop"
    /\ UNCHANGED simVars
    /\ UNCHANGED <<teamVars, graphVars>>
    /\ UNCHANGED asstVars

(* after the sleep: the break test, then the next pass or the return *)
SimResume ==
    /\ pc = "sim_sleep"
    /\ pc' = IF CloseEnough(scenario.target_performance, current) THEN "sim_done"
             ELSE IF iterations >= MaxIterations THEN "sim_done"
             ELSE "sim_loop"
    /\ UNCHANGED simVars
    /\ UNCHANGED <<teamVars, graphVars>>
    /\ UNCHANGED asstVars

(* The roles and the pattern label of the formed team are handed to the   *)
(* graph builders as their configuration (the round trip form_team ->     *)
(* graph builder).                                                        *)
BuildTeamGraph ==
    /\ pc = "formed"
    /\ config' = [agents      |-> team_config.agents,
                  connections |-> team_config.collaboration_pattern]
    /\ pc' = "graph"
    /\ UNCHANGED <<demo_graph, graph_data>>
    /\ UNCHANGED <<teamVars, simVars>>
    /\ UNCHANGED asstVars

(* process_research_query up to the first "await asyncio.sleep(0.1)" of   *)
(* _execute_research: the task is analysed and the team is formed         *)
StartQuery(p, q) ==
    /\ pc = "assistant"
    /\ tasks[p].pc = "idle"
    /\ LET a == analyze_complexity(q)
       IN  tasks' = [tasks EXCEPT ![p] =
                        [pc          |-> "phase",
                         query       |-> q,
                         analysis    |-> a,
                         team_config |-> form_team(a),
                         phase       |-> 1]]
    /\ UNCHANGED <<completed_tasks, history, analytics>>
    /\ UNCHANGED <<pc, teamVars, graphVars, simVars>>

(* from one sleep of _execute_research to the sleep of the next phase *)
ResumePhase(p) ==
    /\ pc = "assistant"
    /\ tasks[p].pc = "phase"
    /\ tasks[p].phase < Len(Phases)
    /\ tasks' = [tasks EXCEPT ![p].phase = @ + 1]
    /\ UNCHANGED <<completed_tasks, history, analytics>>
    /\ UNCHANGED <<pc, teamVars, graphVars, simVars>>

(* variant: the coroutine is suspended between the two appends *)
FinishQuery_Torn(p, execution_variance) ==
    /\ pc = "assistant"
    /\ \/ /\ tasks[p].pc = "phase"
          /\ tasks[p].phase = Len(Phases)
          /\ completed_tasks' = Append(completed_tasks,
                 MakeResult(p, tasks[p],
                     actual_performance(tasks[p].team_config.estimated_performance,
                                        execution_variance)))
          /\ tasks' = [tasks EXCEPT ![p].pc = "recording"]
          /\ UNCHANGED history
       \/ /\ tasks[p].pc = "recording"
          /\ history' = Append(history,
                 actual_performance(tasks[p].team_config.estimated_performance,
                                    execution_variance))
          /\ tasks' = [tasks EXCEPT ![p].pc = "done"]
          /\ UNCHANGED completed_tasks
    /\ UNCHANGED analytics
    /\ UNCHANGED <<pc, teamVars, graphVars, simVars>>

(* variant: the result replaces the list instead of being appended *)
FinishQuery_Replace(p, execution_variance) ==
    /\ pc = "assistant"
    /\ tasks[p].pc = "phase"
    /\ tasks[p].phase = Len(Phases)
    /\ LET performance ==
               actual_performance(tasks[p].team_config.estimated_performance,
                                  execution_variance)
       IN  /\ completed_tasks' = <<MakeResult(p, tasks[p], performance)>>
           /\ history' = <<performance>>
    /\ tasks' = [tasks EXCEPT ![p].pc = "done"]
    /\ UNCHANGED analytics
    /\ UNCHANGED <<pc, teamVars, graphVars, simVars>>

(* from the last sleep of _execute_research to the return of              *)
(* process_research_query: the performance is drawn and the result is     *)
(* appended to completed_tasks and to performance_history                 *)
FinishQuery(p, execution_variance) ==
    /\ pc = "assistant"
    /\ tasks[p].pc = "phase"
    /\ tasks[p].phase = Len(Phases)
    /\ LET performance ==
               actual_performance(tasks[p].team_config.estimated_performance,
                                  execution_variance)
       IN  /\ completed_tasks' = Append(completed_tasks, MakeResult(p, tasks[p], performance))
           /\ history' = Append(history, performance)
    /\ tasks' = [tasks EXCEPT ![p].pc = "done"]
    /\ UNCHANGED analytics
    /\ UNCHANGED <<pc, teamVars, graphVars, simVars>>

(* analytics = assistant.get_performance_analytics() *)
GetPerformanceAnalytics ==
    /\ pc = "assistant"
    /\ analytics' = get_performance_analytics(completed_tasks, history)
    /\ UNCHANGED <<tasks, completed_tasks, history>>
    /\ UNCHANGED <<pc, teamVars, graphVars, simVars>>

-----------------------------------------------------------------------------
(* Specifications *)

NextTeam == AnalyzeComplexity \/ FormTeam

NextGraph == CreateDemoGraph \/ GenerateGraphData

NextSim == SimStart \/ SimIterate \/ SimResume

NextRoundTrip == NextTeam \/ BuildTeamGraph \/ NextGraph

NextAssistant ==
    \/ \E p \in Pipelines, q \in AssistantQueries : StartQuery(p, q)
    \/ \E p \in Pipelines : ResumePhase(p)
    \/ \E p \in Pipelines, v \in Variances : FinishQuery(p, v)
    \/ GetPerformanceAnalytics

Next == NextTeam \/ BuildTeamGraph \/ NextGraph \/ NextSim \/ NextAssistant

Spec == Init /\ [][Next]_vars

SpecTeam == InitTeam /\ [][NextTeam]_vars

SpecGraph == InitGraph /\ [][NextGraph]_vars

SpecSim == InitSim /\ [][NextSim]_vars

SpecRoundTrip == InitTeam /\ [][NextRoundTrip]_vars

SpecAssistant == InitAssistant /\ [][NextAssistant]_vars

(* the event loop resumes a sleeping coroutine *)
FairSpecSim == SpecSim /\ WF_vars(NextSim)

-----------------------------------------------------------------------------
(* Properties of the classifier and the team planner (SpecTeam) *)

Analyzed == pc \in {"analyzed", "formed"}

Formed == pc = "formed"

HighIndicatorOccurs == AnyIn(complexity_indicators["high"], Lower(query))

(* C1: whenever at least one high-tier indicator word occurs in the       *)
(* lower-cased query, analyze_complexity returns tier high, however many  *)
(* medium-tier or low-tier indicator words occur as well.                 *)
C1_HighTierHasPriority ==
    (Analyzed /\ HighIndicatorOccurs) => analysis.complexity = "high"

(* a query with one high-tier indicator and two medium-tier ones is high *)
C1_Witness ==
    /\ Analyzed
    /\ complexity_scores(Lower(query))["high"] = 1
    /\ complexity_scores(Lower(query))["medium"] = 2
    /\ analysis.complexity = "high"

TargetTeamSize(tier, skillCount) ==
    LET base == CASE tier = "low" -> 2 [] tier = "medium" -> 3 [] tier = "high" -> 4
    IN  MinOf(base + skillCount \div 2, 6)

(* C2: for every tier and every list of required skills, form_team        *)
(* returns a role sequence whose length is between 1 and 6 and is exactly *)
(* min(base(tier) + floor(skillCount / 2), 6), base low=2 medium=3 high=4.*)
C2_TeamSizeIsTarget ==
    Formed =>
        /\ Len(team_config.agents) \in 1..6
        /\ Len(team_config.agents)
             = TargetTeamSize(analysis.complexity, Len(analysis.skills))

(* a team whose selection was longer than the target size and was cut *)
C2_Witness ==
    /\ Formed
    /\ Len(SkillMatched(analysis.complexity, analysis.skills)) > analysis.agent_count
    /\ Len(team_config.agents) = analysis.agent_count

(* the roles appended by the loop over the required skills *)
SkillAppended(skills) == Range(SelectForSkills(<<"IO">>, skills, 1)) \ {"IO"}

(* C3: every role that was appended because it matched a required skill  *)
(* is still present in the role sequence form_team returns.               *)
C3_SkillMatchedRolesSurvive ==
    Formed => SkillAppended(analysis.skills) \subseteq Range(team_config.agents)

-----------------------------------------------------------------------------
(* Properties of simulate_optimization (SpecSim, FairSpecSim) *)

SimRunning == pc \in {"sim_loop", "sim_sleep", "sim_done"}

SimReturned == pc = "sim_done"

(* C4: for every initial <= target the trace starts with the initial      *)
(* value, never decreases, never exceeds target, and has at most 10       *)
(* values after the initial one.                                          *)
C4_TraceMonotoneBounded ==
    (SimRunning /\ scenario.initial_performance <= scenario.target_performance) =>
        /\ performance_history[1] = scenario.initial_performance
        /\ \A k \in 2..Len(performance_history) :
              performance_history[k] >= performance_history[k - 1]
        /\ \A k \in 1..Len(performance_history) :
              performance_history[k] <= scenario.target_performance
        /\ Len(performance_history) - 1 <= 10

(* a run from below the target that used all ten passes *)
C4_Witness ==
    /\ SimReturned
    /\ scenario.initial_performance < scenario.target_performance
    /\ Len(performance_history) = 11
    /\ performance_history[11] > performance_history[1]

(* C5: called with initial >= target, simulate_optimization returns the   *)
(* trace that consists of the single initial value.                       *)
C5_NoPassWhenAtTarget ==
    (SimReturned /\ scenario.initial_performance >= scenario.target_performance) =>
        performance_history = <<scenario.initial_performance>>

IsDemoScenario == pc \in {"sim_called", "sim_loop", "sim_sleep", "sim_done"}
                    /\ scenario \in optimization_scenarios

LastValue == performance_history[Len(performance_history)]

DemoRunConverged ==
    /\ SimReturned
    /\ iterations <= 10
    /\ Len(performance_history) = iterations + 1
    /\ 100 * LastValue >= 95 * scenario.target_performance

(* C6: for the two scenarios of the demo the loop eventually stops, after *)
(* at most 10 passes, and the last value of the trace is then at least    *)
(* 95% of the target.                                                     *)
C6_DemoRunsConverge == IsDemoScenario ~> DemoRunConverged

(* the run 0.65 -> 0.85 has returned, at or above 0.8075 *)
C6_Witness ==
    /\ SimReturned
    /\ scenario = [initial_performance |-> 13 * GridUnit,
                   target_performance  |-> 17 * GridUnit]
    /\ iterations \in 1..10
    /\ current >= 8075 * (Scale \div 10000)

-----------------------------------------------------------------------------
(* Properties of the graph builders (SpecGraph) *)

NumAgents == Len(config.agents)

DemoBuilt == pc = "graph" /\ demo_graph # NoValue

DataBuilt == pc = "graph" /\ graph_data # NoValue

EdgesBetween(i, j) ==
    {k \in DOMAIN graph_data.edges :
        {graph_data.edges[k].from, graph_data.edges[k].to} = {i, j}}

(* C7: the fully-connected pattern over n nodes yields exactly one edge   *)
(* for every unordered pair i < j, n*(n-1)/2 edges in total, and a        *)
(* connectivity of exactly 1.0 for every n >= 2.                          *)
C7_FullyConnected ==
    (pc = "graph" /\ config.connections = "full") =>
        /\ DataBuilt =>
              /\ \A i, j \in 0..(NumAgents - 1) :
                    i < j => Cardinality(EdgesBetween(i, j)) = 1
              /\ Len(graph_data.edges) = (NumAgents * (NumAgents - 1)) \div 2
              /\ graph_data.stats.num_edges = (NumAgents * (NumAgents - 1)) \div 2
              /\ NumAgents >= 2 => graph_data.stats.connectivity = One
        /\ DemoBuilt =>
              /\ demo_graph # ZeroDivisionError
              /\ demo_graph.edges = (NumAgents * (NumAgents - 1)) \div 2
              /\ NumAgents >= 2 => demo_graph.connectivity = One

(* both builders have built the fully-connected graph over four nodes *)
C7_Witness ==
    /\ DataBuilt
    /\ DemoBuilt
    /\ config.connections = "full"
    /\ NumAgents = 4
    /\ Len(graph_data.edges) = 6
    /\ demo_graph.edges = 6

IsSequentialEdge(e) == e.to = e.from + 1

(* C8: the sequential pattern over n nodes yields exactly n-1 edges: one  *)
(* edge from node i to node i+1 for each i in 0..n-2 and no other edge.   *)
C8_Sequential ==
    (pc = "graph" /\ config.connections = "sequential" /\ NumAgents >= 1) =>
        /\ DataBuilt =>
              /\ Len(graph_data.edges) = NumAgents - 1
              /\ \A i \in 0..(NumAgents - 2) :
                    \E k \in DOMAIN graph_data.edges :
                        graph_data.edges[k].from = i /\ graph_data.edges[k].to = i + 1
              /\ \A k \in DOMAIN graph_data.edges : IsSequentialEdge(graph_data.edges[k])
        /\ DemoBuilt =>
              /\ demo_graph # ZeroDivisionError
              /\ demo_graph.edges = NumAgents - 1

(* C9: the connectivity is computable for every n >= 1 and every pattern: *)
(* 0 for n <= 1, and edgeCount / (n*(n-1)/2) for n > 1; the builder never *)
(* fails with a division by zero.                                         *)
C9_ConnectivityComputable ==
    (pc = "graph" /\ NumAgents >= 1) =>
        /\ DataBuilt =>
              /\ graph_data.stats.connectivity # ZeroDivisionError
              /\ graph_data.stats.connectivity =
                    IF NumAgents <= 1 THEN Zero
                    ELSE Ratio(Len(graph_data.edges), MaxEdges(NumAgents))
        /\ DemoBuilt =>
              /\ demo_graph # ZeroDivisionError
              /\ demo_graph.connectivity =
                    IF NumAgents <= 1 THEN Zero
                    ELSE Ratio(demo_graph.edges, MaxEdges(NumAgents))

RecognizedLabels == {"sequential", "full", "hub"}

(* C10: for a pattern label that is not a recognized one the builder does *)
(* not fail and returns the fallback topology: as many edges as nodes and *)
(* a connectivity of 0.5.                                                 *)
C10_UnrecognizedFallback ==
    (pc = "graph" /\ config.connections \notin RecognizedLabels /\ NumAgents >= 1) =>
        /\ DataBuilt =>
              /\ graph_data.stats.num_edges = NumAgents
              /\ graph_data.stats.connectivity = Half
        /\ DemoBuilt =>
              /\ demo_graph # ZeroDivisionError
              /\ demo_graph.edges = NumAgents
              /\ demo_graph.connectivity = Half

-----------------------------------------------------------------------------
(* The team handed to the graph builders (SpecRoundTrip) *)

HandedOver == pc = "graph" /\ team_config # NoValue

NamedEdgeCount(pattern, n) ==
    CASE pattern = "sequential" -> n - 1
      [] pattern = "hub_and_spoke" -> n - 1
      [] pattern = "fully_connected" -> (n * (n - 1)) \div 2

NamedPatterns == {"sequential", "hub_and_spoke", "fully_connected"}

(* C11: feeding the roles and the pattern label returned by form_team     *)
(* into the graph builder never raises and returns a graph whose node    *)
(* count is the number of roles, with the topology the pattern label     *)
(* names (sequential, hub_and_spoke, fully_connected) and not the        *)
(* fallback for an unrecognized pattern.                                 *)
C11_RoundTripBuildsNamedTopology ==
    HandedOver =>
        LET n == Len(team_config.agents)
            pattern == team_config.collaboration_pattern
        IN  /\ DemoBuilt =>
                  /\ demo_graph # ZeroDivisionError
                  /\ demo_graph.nodes = n
                  /\ pattern \in NamedPatterns =>
                        demo_graph.edges = NamedEdgeCount(pattern, n)
            /\ DataBuilt =>
                  /\ graph_data.stats.num_nodes = n
                  /\ Len(graph_data.nodes) = n
                  /\ pattern \in NamedPatterns =>
                        /\ Len(graph_data.edges) = NamedEdgeCount(pattern, n)
                        /\ pattern = "hub_and_spoke" =>
                              \A k \in DOMAIN graph_data.edges : graph_data.edges[k].from = 0

-----------------------------------------------------------------------------
(* Properties of the assistant (SpecAssistant) *)

Assisting == pc = "assistant"

(* the last call of get_performance_analytics returned statistics *)
Reported ==
    /\ Assisting
    /\ analytics # NoValue
    /\ analytics # NoTasksMessage
    /\ analytics # ZeroDivisionError

(* the records the last report was made of: completed_tasks only grows *)
ReportedTasks == SubSeq(completed_tasks, 1, analytics.total_tasks)

AboveThreshold(performance) == 10 * performance > 7 * PerfScale

(* C12: a completed task is recorded as a success if and only if its     *)
(* final performance is strictly greater than 0.7, and the reported      *)
(* success rate is the number of such records divided by the number of   *)
(* records.                                                              *)
C12_SuccessAboveThreshold ==
    Assisting =>
        /\ \A i \in DOMAIN completed_tasks :
              completed_tasks[i].success
                 <=> AboveThreshold(completed_tasks[i].execution_result.performance)
        /\ Reported =>
              analytics.success_rate =
                 Ratio(Cardinality({i \in DOMAIN ReportedTasks :
                          AboveThreshold(ReportedTasks[i].execution_result.performance)}),
                       Len(ReportedTasks))

(* a record with a performance of exactly 0.7 is no success; one of the  *)
(* two reported records is a success                                     *)
C12_Witness ==
    /\ Reported
    /\ analytics.total_tasks = 2
    /\ analytics.success_rate = Half
    /\ \E i \in DOMAIN ReportedTasks :
          /\ 10 * ReportedTasks[i].execution_result.performance = 7 * PerfScale
          /\ ~ReportedTasks[i].success

PatternsOf(ct) == {ct[i].team_config.collaboration_pattern : i \in DOMAIN ct}

RecordsOfPattern(ct, pattern) ==
    {i \in DOMAIN ct : ct[i].team_config.collaboration_pattern = pattern}

RecordsOfTier(ct, tier) == {i \in DOMAIN ct : ct[i].analysis.complexity = tier}

RECURSIVE SumOfRecords(_, _)
SumOfRecords(ct, S) ==
    IF S = {} THEN 0
    ELSE LET i == MinElem(S)
         IN  ct[i].execution_result.performance + SumOfRecords(ct, S \ {i})

(* arithmetic mean of the performances of the records S, S not empty *)
MeanOfRecords(ct, S) == Ratio(SumOfRecords(ct, S), Cardinality(S) * PerfScale)

Tiers == {"low", "medium", "high"}

(* C14: after a non-empty sequence of recorded tasks the report has a    *)
(* per-tier average for each of low, medium and high: the mean of the    *)
(* performances of the records of the tier, and 0.0 for a tier with no   *)
(* records.                                                              *)
C14_TierAverages ==
    (Assisting /\ analytics # NoValue /\ analytics # NoTasksMessage) =>
        /\ analytics # ZeroDivisionError
        /\ DOMAIN analytics.complexity_performance = Tiers
        /\ \A tier \in Tiers :
              analytics.complexity_performance[tier] =
                 IF RecordsOfTier(ReportedTasks, tier) = {} THEN Zero
                 ELSE MeanOfRecords(ReportedTasks, RecordsOfTier(ReportedTasks, tier))

(* a report with records of tier high and low and none of tier medium *)
C14_Witness ==
    /\ Reported
    /\ RecordsOfTier(ReportedTasks, "high") # {}
    /\ RecordsOfTier(ReportedTasks, "low") # {}
    /\ RecordsOfTier(ReportedTasks, "medium") = {}
    /\ analytics.complexity_performance["medium"] = Zero
    /\ analytics.complexity_performance["high"] # Zero

(* C15: get_performance_analytics called before any task was recorded    *)
(* returns the "no tasks" message and does not fail; statistics are      *)
(* never those of an empty history.                                      *)
C15_NoTasksMessage ==
    Assisting =>
        /\ analytics # ZeroDivisionError
        /\ (analytics # NoValue /\ Len(completed_tasks) = 0) => analytics = NoTasksMessage
        /\ Reported => analytics.total_tasks >= 1

(* the report was asked for while nothing was recorded *)
C15_Witness ==
    /\ Assisting
    /\ Len(completed_tasks) = 0
    /\ analytics = NoTasksMessage
    /\ \E p \in Pipelines : tasks[p].pc = "phase"

DoneCount == Cardinality({p \in Pipelines : tasks[p].pc = "done"})

(* C16: each completed process_research_query appends exactly one record *)
(* and leaves the earlier records unchanged and in place,                *)
(* get_performance_analytics leaves the history unchanged, and the       *)
(* reported total is the number of tasks completed so far.               *)
C16_HistoryAppendOnly ==
    [][Assisting =>
          /\ Len(completed_tasks') >= Len(completed_tasks)
          /\ SubSeq(completed_tasks', 1, Len(completed_tasks)) = completed_tasks
          /\ Len(history') >= Len(history)
          /\ SubSeq(history', 1, Len(history)) = history
          /\ Len(completed_tasks') - Len(completed_tasks) = DoneCount' - DoneCount
          /\ DoneCount' - DoneCount \in {0, 1}
          /\ analytics' # analytics =>
                /\ completed_tasks' = completed_tasks
                /\ history' = history
                /\ analytics' # ZeroDivisionError
                /\ analytics' # NoTasksMessage => analytics'.total_tasks = DoneCount'
    ]_vars

(* two tasks are recorded and the report counts two *)
C16_Witness ==
    /\ Reported
    /\ DoneCount = 2
    /\ Len(completed_tasks) = 2
    /\ analytics.total_tasks = 2

RecordsOfTask(p) == {i \in DOMAIN completed_tasks : completed_tasks[i].task = p}

(* C17: with the pipelines interleaved at their await points in any      *)
(* order, completed_tasks and performance_history have the same length   *)
(* in every reachable state, the i-th performance is that of the i-th    *)
(* completed task, and each pipeline contributes exactly one record.     *)
C17_RecordingIsAtomic ==
    Assisting =>
        /\ Len(completed_tasks) = Len(history)
        /\ \A i \in DOMAIN completed_tasks :
              /\ i \in DOMAIN history
              /\ history[i] = completed_tasks[i].execution_result.performance
        /\ \A p \in Pipelines :
              Cardinality(RecordsOfTask(p)) = IF tasks[p].pc = "done" THEN 1 ELSE 0

(* the second pipeline has recorded while the first is in its third phase *)
C17_Witness ==
    /\ Assisting
    /\ tasks[1].pc = "phase"
    /\ tasks[1].phase = 3
    /\ tasks[2].pc = "done"
    /\ Len(completed_tasks) = 1
    /\ completed_tasks[1].task = 2
    /\ history = <<completed_tasks[1].execution_result.performance>>

-----------------------------------------------------------------------------
(* Labels and defaults of the team planner (SpecTeam) *)

(* C18: the formation strategy is hierarchical_specialization when the   *)
(* tier is high and there are more than 3 required skills; otherwise     *)
(* skill_based_clustering when there are more than 2; otherwise          *)
(* deep_collaboration when the tier is high; otherwise simple_parallel.  *)
C18_FormationStrategy ==
    Formed =>
        LET tier == analysis.complexity
            skillCount == Len(analysis.skills)
            expected ==
                CASE tier = "high" /\ skillCount > 3 -> "hierarchical_specialization"
                  [] ~(tier = "high" /\ skillCount > 3) /\ skillCount > 2 ->
                        "skill_based_clustering"
                  [] skillCount <= 2 /\ tier = "high" -> "deep_collaboration"
                  [] skillCount <= 2 /\ tier # "high" -> "simple_parallel"
        IN  /\ team_config.formation_strategy = expected
            /\ team.formation_strategy = expected

(* a high-tier task with exactly three skills is clustered by skill *)
C18_Witness ==
    /\ Formed
    /\ analysis.complexity = "high"
    /\ Len(analysis.skills) = 3
    /\ team_config.formation_strategy = "skill_based_clustering"

(* C19: the collaboration pattern is computed from the final (padded and *)
(* truncated) role sequence: sequential when it has at most 2 roles;     *)
(* otherwise hub_and_spoke when it contains TOT; otherwise               *)
(* fully_connected when it has at least 4 roles; otherwise pipeline.     *)
C19_CollaborationPattern ==
    Formed =>
        LET roles == team_config.agents
            expected ==
                CASE Len(roles) <= 2 -> "sequential"
                  [] Len(roles) > 2 /\ "TOT" \in Range(roles) -> "hub_and_spoke"
                  [] Len(roles) >= 4 /\ "TOT" \notin Range(roles) -> "fully_connected"
                  [] Len(roles) = 3 /\ "TOT" \notin Range(roles) -> "pipeline"
        IN  /\ team_config.collaboration_pattern = expected
            /\ team.collaboration_pattern = expected

(* a selection of one role padded to three: the pattern is that of the   *)
(* three roles                                                           *)
C19_Witness ==
    /\ Formed
    /\ Len(SkillMatched(analysis.complexity, analysis.skills)) = 1
    /\ Len(team_config.agents) = 3
    /\ team_config.collaboration_pattern = "pipeline"

NothingMatched ==
    /\ \A level \in Range(Levels) : ~AnyIn(complexity_indicators[level], Lower(query))
    /\ \A k \in DOMAIN skill_keywords : ~AnyIn(skill_keywords[k].words, Lower(query))

(* C20: a query that matches no tier indicator word and no skill keyword *)
(* (the empty query included) is classified as tier low with an empty    *)
(* skill list, and form_team returns two coordinator roles with the      *)
(* pattern sequential.                                                   *)
C20_UnmatchedQueryDefaults ==
    (Analyzed /\ NothingMatched) =>
        /\ analysis.complexity = "low"
        /\ analysis.skills = << >>
        /\ Formed =>
              /\ team_config.agents = <<"IO", "IO">>
              /\ team_config.collaboration_pattern = "sequential"

(* the empty query has been classified and its team formed *)
C20_Witness ==
    /\ Formed
    /\ query = ""
    /\ NothingMatched
    /\ team_config.agents = <<"IO", "IO">>

-----------------------------------------------------------------------------
(* Scenarios of the classifier and the planner (SpecTeam) *)

AllKeywords ==
    UNION {Range(complexity_indicators[level]) : level \in Range(Levels)}
        \cup UNION {Range(skill_keywords[k].words) : k \in DOMAIN skill_keywords}

(* the keywords that occur in the lower-cased query *)
MatchedKeywords == {word \in AllKeywords : Contains(word, Lower(query))}

(* C21: for a query whose only matched keyword is "compare" the pipeline  *)
(* classify, form_team yields tier high, a skill list with analysis, a    *)
(* team of at least 4 roles and a pattern that is hub_and_spoke or        *)
(* fully_connected.                                                       *)
C21_CompareScenario ==
    (Formed /\ MatchedKeywords = {"compare"}) =>
        /\ analysis.complexity = "high"
        /\ "analysis" \in Range(analysis.skills)
        /\ Len(team_config.agents) >= 4
        /\ team_config.collaboration_pattern \in {"hub_and_spoke", "fully_connected"}

(* the "Compare ..." query of the demo has its team of four *)
C21_Witness ==
    /\ Formed
    /\ query = "Compare the effectiveness of renewable energy sources in reducing carbon emissions"
    /\ MatchedKeywords = {"compare"}
    /\ Len(team_config.agents) = 4
    /\ team_config.collaboration_pattern = "hub_and_spoke"

(* C22: for a query whose only matched keyword is the low-tier indicator  *)
(* "what" the pipeline yields tier low, an empty skill list, a team of    *)
(* exactly 2 roles and the pattern sequential.                            *)
C22_WhatScenario ==
    (Formed /\ MatchedKeywords = {"what"}) =>
        /\ analysis.complexity = "low"
        /\ analysis.skills = << >>
        /\ Len(team_config.agents) = 2
        /\ team_config.collaboration_pattern = "sequential"

(* "What is machine learning?" has its team of two *)
C22_Witness ==
    /\ Formed
    /\ query = "What is machine learning?"
    /\ MatchedKeywords = {"what"}
    /\ Len(team_config.agents) = 2

-----------------------------------------------------------------------------
(* The hub pattern (SpecGraph) *)

IncidentEdges(i) ==
    {k \in DOMAIN graph_data.edges :
        i \in {graph_data.edges[k].from, graph_data.edges[k].to}}

(* C23: the hub pattern over n nodes makes node 0 the hub: the edges are  *)
(* exactly one edge from node 0 to each node i in 1..n-1, so every edge   *)
(* has node 0 as its source and every other node has exactly one incident *)
(* edge.                                                                  *)
C23_HubAndSpoke ==
    (pc = "graph" /\ config.connections = "hub" /\ NumAgents >= 1) =>
        /\ DataBuilt =>
              /\ Len(graph_data.edges) = NumAgents - 1
              /\ \A i \in 1..(NumAgents - 1) :
                    /\ \E k \in DOMAIN graph_data.edges :
                          graph_data.edges[k].from = 0 /\ graph_data.edges[k].to = i
                    /\ Cardinality(IncidentEdges(i)) = 1
              /\ \A k \in DOMAIN graph_data.edges : graph_data.edges[k].from = 0
        /\ DemoBuilt =>
              /\ demo_graph # ZeroDivisionError
              /\ demo_graph.edges = NumAgents - 1

-----------------------------------------------------------------------------
(* The predicted performance (SpecTeam) *)

(* the skills analyze_complexity can produce *)
ClassifierSkills == {skill_keywords[k].skill : k \in DOMAIN skill_keywords}

(* the required skills that a role of the team lists in the capability    *)
(* catalog of the role selection                                          *)
CoveredByCatalog(roles, skills) ==
    {k \in DOMAIN skills :
        \E a \in DOMAIN roles : skills[k] \in Range(agent_capabilities[roles[a]])}

(* C24: the predicted performance returned by form_team is                *)
(* min(0.6 + 0.3 * covered / max(skillCount, 1) + 0.1 * min(teamSize / 4, *)
(* 1), 1.0), where a skill is covered exactly when a role of the returned *)
(* team lists it in the capability catalog; the skill map of the scoring  *)
(* and the catalog agree on every skill the classifier can produce.       *)
C24_PredictedPerformance ==
    /\ \A skill \in ClassifierSkills : \A role \in Range(AgentTypes) :
          skill \in Range(agent_skill_map[role])
             <=> skill \in Range(agent_capabilities[role])
    /\ Formed =>
          LET roles == team_config.agents
              skills == analysis.skills
              covered == Cardinality(CoveredByCatalog(roles, skills))
              n == MaxOf(Len(skills), 1)
          IN  \* both sides multiplied by 40 * n
              40 * n * team_config.estimated_performance =
                 PerfScale * MinOf(24 * n + 12 * covered + n * MinOf(Len(roles), 4), 40 * n)

(* a team that leaves one of three required skills uncovered: 0.6 + 0.2   *)
(* + 0.075                                                                *)
C24_Witness ==
    /\ Formed
    /\ Len(analysis.skills) = 3
    /\ Cardinality(CoveredByCatalog(team_config.agents, analysis.skills)) = 2
    /\ Len(team_config.agents) = 3
    /\ 8 * team_config.estimated_performance = 7 * PerfScale

-----------------------------------------------------------------------------
(* The steps of simulate_optimization (SpecSim) *)

(* min(previous + (target - previous) * 0.15 + 0.01, target) *)
StepValue(target, previous) ==
    MinOf(previous + ((target - previous) * 15) \div 100 + Scale \div 100, target)

ReachedTarget(value) == 100 * value >= 95 * scenario.target_performance

(* C25: every value after the first is min(previous + (target - previous) *)
(* * 0.15 + 0.01, target), and the loop stops at the first step whose     *)
(* value is >= 0.95 * target: every trace element other than the first    *)
(* and the last is below 0.95 * target, and no value is appended after a  *)
(* step that reached 0.95 * target.                                       *)
C25_StepAndEarlyStop ==
    SimRunning =>
        /\ \A k \in 2..Len(performance_history) :
              performance_history[k] =
                 StepValue(scenario.target_performance, performance_history[k - 1])
        /\ \A k \in 2..(Len(performance_history) - 1) :
              ~ReachedTarget(performance_history[k])
        /\ (pc = "sim_loop" /\ Len(performance_history) >= 2) => ~ReachedTarget(LastValue)
        /\ SimReturned =>
              /\ Len(performance_history) >= 2
              /\ ReachedTarget(LastValue) \/ Len(performance_history) = MaxIterations + 1

(* a run that stopped early, at its fourth step *)
C25_Witness ==
    /\ SimReturned
    /\ Len(performance_history) = 5
    /\ ~ReachedTarget(performance_history[1])
    /\ ~ReachedTarget(performance_history[4])
    /\ ReachedTarget(performance_history[5])

-----------------------------------------------------------------------------
(* The coordinator and the deep-reasoning role (SpecTeam) *)

(* C26: for every skill list the first role of the team returned by       *)
(* form_team is the coordinator IO; so when the pattern is hub_and_spoke  *)
(* the hub, node 0, is the coordinator and not the role TOT whose         *)
(* presence selected the pattern.                                         *)
C26_CoordinatorFirst ==
    Formed =>
        /\ Len(team_config.agents) >= 1
        /\ team_config.agents[1] = "IO"
        /\ team.agents = team_config.agents
        /\ team_config.collaboration_pattern = "hub_and_spoke" =>
              /\ team_config.agents[1] # "TOT"
              /\ \E k \in 2..Len(team_config.agents) : team_config.agents[k] = "TOT"

(* a hub_and_spoke team whose second role is TOT *)
C26_Witness ==
    /\ Formed
    /\ team_config.collaboration_pattern = "hub_and_spoke"
    /\ team_config.agents[1] = "IO"
    /\ team_config.agents[2] = "TOT"
    /\ Len(analysis.skills) >= 2

(* C27: for tier high and every skill list the classifier can produce the *)
(* team returned by form_team contains TOT (the force-appended TOT is     *)
(* never removed by the truncation) and the pattern is hub_and_spoke.     *)
C27_HighTierHasTOT ==
    (Formed /\ analysis.complexity = "high") =>
        /\ "TOT" \in Range(team_config.agents)
        /\ Len(SkillMatched(analysis.complexity, analysis.skills)) <= analysis.agent_count
        /\ team_config.collaboration_pattern = "hub_and_spoke"

(* a high-tier task without the skill analysis: TOT is appended after the *)
(* two skill-matched roles and kept                                       *)
C27_Witness ==
    /\ Formed
    /\ analysis.complexity = "high"
    /\ "analysis" \notin Range(analysis.skills)
    /\ Len(team_config.agents) >= 4
    /\ team_config.agents[4] = "TOT"

-----------------------------------------------------------------------------
(* The two graph builders together (SpecGraph) *)

(* C28: for every agent list with n >= 2 and every label of sequential,   *)
(* full, hub the edge count and the connectivity reported by              *)
(* create_demo_graph are the number of edges and the connectivity         *)
(* produced by _generate_graph_data for the same configuration.           *)
C28_BuildersAgree ==
    (DemoBuilt /\ DataBuilt /\ NumAgents >= 2 /\ config.connections \in RecognizedLabels) =>
        /\ demo_graph # ZeroDivisionError
        /\ demo_graph.nodes = Len(graph_data.nodes)
        /\ demo_graph.edges = Len(graph_data.edges)
        /\ demo_graph.edges = graph_data.stats.num_edges
        /\ demo_graph.connectivity = graph_data.stats.connectivity

(* both builders have built the hub over five nodes: 4 edges, 2/5 *)
C28_Witness ==
    /\ DemoBuilt
    /\ DataBuilt
    /\ config.connections = "hub"
    /\ NumAgents = 5
    /\ demo_graph.edges = 4
    /\ graph_data.stats.connectivity = Ratio(2, 5)

(* C29: every graph of _generate_graph_data is well formed: node ids are  *)
(* 0..n-1 in role order, every edge has 0 <= from < to <= n-1, no         *)
(* unordered pair of nodes has more than one edge, edge ids are 0..E-1 in *)
(* creation order, and the connectivity lies in [0, 1].                   *)
C29_WellFormedGraph ==
    DataBuilt =>
        /\ Len(graph_data.nodes) = NumAgents
        /\ \A k \in DOMAIN graph_data.nodes :
              /\ graph_data.nodes[k].id = k - 1
              /\ graph_data.nodes[k].type = config.agents[k]
        /\ \A k \in DOMAIN graph_data.edges :
              /\ graph_data.edges[k].id = k - 1
              /\ 0 <= graph_data.edges[k].from
              /\ graph_data.edges[k].from < graph_data.edges[k].to
              /\ graph_data.edges[k].to <= NumAgents - 1
        /\ \A k, m \in DOMAIN graph_data.edges :
              k # m =>
                 {graph_data.edges[k].from, graph_data.edges[k].to}
                    # {graph_data.edges[m].from, graph_data.edges[m].to}
        /\ graph_data.stats.connectivity # ZeroDivisionError
        /\ graph_data.stats.connectivity.den > 0
        /\ 0 <= graph_data.stats.connectivity.num
        /\ graph_data.stats.connectivity.num <= graph_data.stats.connectivity.den

(* the full graph over four nodes: six edges, the last with id 5 *)
C29_Witness ==
    /\ DataBuilt
    /\ config.connections = "full"
    /\ NumAgents = 4
    /\ Len(graph_data.edges) = 6
    /\ graph_data.edges[6].id = 5
    /\ graph_data.edges[6].from = 2
    /\ graph_data.edges[6].to = 3

Neighbours(S) ==
    {j \in 0..(NumAgents - 1) :
        \E k \in DOMAIN graph_data.edges, i \in S :
            {graph_data.edges[k].from, graph_data.edges[k].to} = {i, j}}

(* the nodes reachable from S along edges taken as undirected *)
RECURSIVE ReachableFrom(_)
ReachableFrom(S) ==
    IF Neighbours(S) \subseteq S THEN S ELSE ReachableFrom(S \cup Neighbours(S))

(* C30: for each of the patterns sequential, full and hub and every n >=  *)
(* 1 the graph of _generate_graph_data is connected: every node is        *)
(* reachable from node 0 along edges taken as undirected.                 *)
C30_PatternGraphsConnected ==
    (DataBuilt /\ config.connections \in RecognizedLabels /\ NumAgents >= 1) =>
        ReachableFrom({0}) = 0..(NumAgents - 1)

(* the hub over six nodes and the chain over six nodes reach every node *)
C30_Witness ==
    /\ DataBuilt
    /\ config.connections \in {"hub", "sequential"}
    /\ NumAgents = 6
    /\ Len(graph_data.edges) = 5
    /\ ReachableFrom({0}) = 0..5

=============================================================================
